---- MODULE Spec2Model ----
(***************************************************************************)
(* Model of the streaming chat client of Schedule-AI:                      *)
(*   AzureOpenAIChat.__init__, AzureOpenAIChat.generate_response_stream     *)
(*   and the user turn of main() (src/src/app.py, src/streamlit_app.py;     *)
(*   the two files hold the same client and the same turn handling).        *)
(*                                                                         *)
(* A user turn is one run of main() with a submitted prompt.  The turn is   *)
(* split at its blocking I/O points: the call of requests.post, the        *)
(* arrival of the response, and every read of one body line.                *)
(***************************************************************************)
EXTENDS Integers, Sequences, FiniteSets, TLC

(***************************************************************************)
(* Bounds of the model.                                                    *)
(***************************************************************************)
MaxLines == 3      \* body lines the endpoint serves in one session
MaxTurns == 2      \* user turns in one session

(***************************************************************************)
(* JSON values as json.loads returns them.  Every value is a record of the  *)
(* same shape: t is the Python type, s the text of a str (or of a number),  *)
(* keys/kids the keys and values of a dict, kids the items of a list.       *)
(***************************************************************************)
JNull == [t |-> "null", s |-> "", keys |-> <<>>, kids |-> <<>>]
JNum(n) == [t |-> "num", s |-> n, keys |-> <<>>, kids |-> <<>>]
JStr(str) == [t |-> "str", s |-> str, keys |-> <<>>, kids |-> <<>>]
JArr(items) == [t |-> "arr", s |-> "", keys |-> <<>>, kids |-> items]
JObj(ks, vs) == [t |-> "obj", s |-> "", keys |-> ks, kids |-> vs]
JEmptyObj == JObj(<<>>, <<>>)

HasKey(x, k) == \E i \in 1..Len(x.keys) : x.keys[i] = k
ValueOf(x, k) == x.kids[CHOOSE i \in 1..Len(x.keys) : x.keys[i] = k]

(***************************************************************************)
(* Results of a Python expression: exc = "" and the value v, or the name    *)
(* of the exception it raises.                                             *)
(***************************************************************************)
Ok(v) == [exc |-> "", v |-> v]
Raises(e) == [exc |-> e, v |-> JNull]

\* key in x
PyIn(k, x) ==
    CASE x.t = "obj" -> Ok(HasKey(x, k))
      [] x.t = "arr" -> Ok(\E i \in 1..Len(x.kids) : x.kids[i] = JStr(k))
      [] x.t = "str" -> Ok(x.s = k)   \* substring test; no text of the model
                                      \* contains a key as a proper part
      [] OTHER -> Raises("TypeError") \* argument of type ... is not iterable

\* x[k] with a str key
PyGetItem(x, k) ==
    CASE x.t = "obj" -> IF HasKey(x, k) THEN Ok(ValueOf(x, k)) ELSE Raises("KeyError")
      [] OTHER -> Raises("TypeError")

\* len(x)
PyLen(x) ==
    CASE x.t = "obj" -> Ok(Len(x.keys))
      [] x.t = "arr" -> Ok(Len(x.kids))
      [] x.t = "str" -> Ok(Len(x.s))
      [] OTHER -> Raises("TypeError")

\* x[0]
PyFirst(x) ==
    CASE x.t = "arr" -> IF Len(x.kids) > 0 THEN Ok(x.kids[1]) ELSE Raises("IndexError")
      [] x.t = "str" -> IF Len(x.s) > 0 THEN Ok(JStr(x.s)) ELSE Raises("IndexError")
                        \* a str again (its first character)
      [] x.t = "obj" -> Raises("KeyError")   \* the keys of a JSON object are str
      [] OTHER -> Raises("TypeError")

\* x.get(k, {})
PyGet(x, k) ==
    IF x.t = "obj"
    THEN Ok(IF HasKey(x, k) THEN ValueOf(x, k) ELSE JEmptyObj)
    ELSE Raises("AttributeError")

(***************************************************************************)
(* Body lines as response.iter_lines() delivers them (bytes).               *)
(*   lead/trail : whitespace before / after the text of the line            *)
(*   prefix     : the text starts with b'data: '                            *)
(*   form       : what follows the prefix: "done" the literal [DONE],       *)
(*                "json" a JSON text (value json), "text" UTF-8 text that   *)
(*                is no JSON, "bytes" bytes that are no UTF-8               *)
(***************************************************************************)
Line(lead, prefix, trail, form, json) ==
    [lead |-> lead, prefix |-> prefix, trail |-> trail, form |-> form, json |-> json]

DataLine(json) == Line(FALSE, TRUE, FALSE, "json", json)
Event(delta) == DataLine(JObj(<<"choices">>, <<JArr(<<JObj(<<"delta">>, <<delta>>)>>)>>))
ContentLine(str) == Event(JObj(<<"content">>, <<JStr(str)>>))

DoneLine == Line(FALSE, TRUE, FALSE, "done", JNull)
DoneLineCR == Line(FALSE, TRUE, TRUE, "done", JNull)
BlankLine == Line(FALSE, FALSE, FALSE, "text", JNull)
NotJsonLine == Line(FALSE, TRUE, FALSE, "text", JNull)
NoChoicesLine == DataLine(JEmptyObj)
EmptyChoicesLine == DataLine(JObj(<<"choices">>, <<JArr(<<>>)>>))
NoDeltaLine == DataLine(JObj(<<"choices">>, <<JArr(<<JEmptyObj>>)>>))
NoContentLine == Event(JObj(<<"role">>, <<JStr("assistant")>>))
NumberLine == DataLine(JNum("5"))
NullDeltaLine == Event(JNull)
NullContentLine == Event(JObj(<<"content">>, <<JNull>>))

Lines ==
    { DoneLine, DoneLineCR, BlankLine, NotJsonLine,
      ContentLine("Hi"), ContentLine(" there"),
      NoChoicesLine, EmptyChoicesLine, NoDeltaLine, NoContentLine,
      NumberLine, NullDeltaLine, NullContentLine }

(***************************************************************************)
(* generate_response_stream, the body of the loop over one line:            *)
(* what the generator does with the line.                                   *)
(*   "break" : the loop ends       "skip"  : on to the next line            *)
(*   "yield" : v is yielded        "raise" : exc leaves the loop            *)
(***************************************************************************)
Break == [act |-> "break", v |-> JNull, exc |-> ""]
Skip == [act |-> "skip", v |-> JNull, exc |-> ""]
Yield(v) == [act |-> "yield", v |-> v, exc |-> ""]
Raise(e) == [act |-> "raise", v |-> JNull, exc |-> e]

\* the marker compared without strip()
IsDoneMarker_NoStrip(line) ==
    line.prefix /\ line.form = "done" /\ ~line.lead /\ ~line.trail

\* line.strip() == b'data: [DONE]'
IsDoneMarker(line) == line.prefix /\ line.form = "done"

\* line.startswith(b'data: ')
StartsWithData(line) == line.prefix /\ ~line.lead

\* json.loads(line[6:].decode('utf-8')), the decode being done first
LoadJson(line) ==
    CASE line.form = "bytes" -> Raises("UnicodeDecodeError")
      [] line.form = "json" -> Ok(line.json)
      [] OTHER -> Raises("JSONDecodeError")

\* the statements under the inner try, after json.loads
ExtractContent(json_data) ==
    LET hasChoices == PyIn("choices", json_data) IN
    IF hasChoices.exc # "" THEN Raise(hasChoices.exc)
    ELSE IF ~hasChoices.v THEN Skip
    ELSE
    LET choices == PyGetItem(json_data, "choices") IN
    IF choices.exc # "" THEN Raise(choices.exc)
    ELSE
    LET n == PyLen(choices.v) IN
    IF n.exc # "" THEN Raise(n.exc)
    ELSE IF ~(n.v > 0) THEN Skip
    ELSE
    LET first == PyFirst(choices.v) IN
    IF first.exc # "" THEN Raise(first.exc)
    ELSE
    LET delta == PyGet(first.v, "delta") IN
    IF delta.exc # "" THEN Raise(delta.exc)
    ELSE
    LET hasContent == PyIn("content", delta.v) IN
    IF hasContent.exc # "" THEN Raise(hasContent.exc)
    ELSE IF ~hasContent.v THEN Skip
    ELSE
    LET content == PyGetItem(delta.v, "content") IN
    IF content.exc # "" THEN Raise(content.exc) ELSE Yield(content.v)

\* except (json.JSONDecodeError, IndexError, KeyError): continue
InnerCaught == {"JSONDecodeError", "IndexError", "KeyError"}

DecodeLine(line) ==
    IF IsDoneMarker(line) THEN Break
    ELSE IF ~StartsWithData(line) THEN Skip
    ELSE
    LET loaded == LoadJson(line) IN
    IF loaded.exc = "UnicodeDecodeError" THEN Raise(loaded.exc)
    ELSE
    LET r == IF loaded.exc # "" THEN Raise(loaded.exc) ELSE ExtractContent(loaded.v) IN
    IF r.act = "raise" /\ r.exc \in InnerCaught THEN Skip ELSE r

(***************************************************************************)
(* The two outer except clauses: every exception that leaves the try block  *)
(* is raised again as a RuntimeError with one of two messages.              *)
(***************************************************************************)
RequestExceptions == {"MissingSchema", "ConnectionError", "HTTPError", "ChunkedEncodingError"}

\* the catch-all clause placed first
WrapError_CatchAllFirst(exc) == "Unexpected error"

WrapError(exc) ==
    IF exc \in RequestExceptions THEN "Request error" ELSE "Unexpected error"

(***************************************************************************)
(* State.                                                                  *)
(*   secrets       st.secrets: name -> <<>> (no entry) or <<value>>         *)
(*   messages      st.session_state.messages, the transcript               *)
(*   pc            "ready": main() is not running a turn;                   *)
(*                 "streaming": main() is in its loop over the generator    *)
(*   prompt        the prompt of the turn                                   *)
(*   full_response the text main() has accumulated in the turn              *)
(*   ui            what the turn shows: the response placeholder and the    *)
(*                 st.error message                                         *)
(*   escaped       the exception that left main() in the last turn, or ""   *)
(*   gen           the generator of the turn's call:                        *)
(*                   state    None (no call yet or client not constructed), *)
(*                            Idle, RequestSent, Streaming, Completed,      *)
(*                            Failed                                        *)
(*                   posts    calls of requests.post made by the call       *)
(*                   status   HTTP status of the response (0: none)         *)
(*                   body     the lines of the response body                *)
(*                   pos      lines read from the body so far               *)
(*                   yielded  the values yielded, each with its line number *)
(*                   failure  message of the RuntimeError raised, cause its *)
(*                            original exception                            *)
(*   turns         user turns started (the number of the current call)      *)
(*   served        body lines the endpoint has served in the session        *)
(*   turnLog       history: for each finished turn its prompt, how it ended *)
(*                 and the values the generator yielded                     *)
(***************************************************************************)
VARIABLES secrets, messages, pc, prompt, full_response, ui, escaped, gen,
          turns, served, turnLog

vars == <<secrets, messages, pc, prompt, full_response, ui, escaped, gen,
          turns, served, turnLog>>

SecretNames == {"AZURE_OPENAI_API_ENDPOINT", "AZURE_OPENAI_API_KEY"}
SecretStores == [SecretNames -> {<<>>, <<"">>, <<"set">>}]
Prompts == {"Hello"}
Cursor == "|"
Sorry == "Sorry, I couldn't generate a response."
NoPlaceholder == "<no placeholder>"

\* st.secrets.get(name, "")
SecretsGet(store, name) == IF store[name] = <<>> THEN "" ELSE store[name][1]

\* the constructor without its check of the key
ClientInit_NoKeyCheck(store) ==
    [exc |-> "",
     API_ENDPOINT |-> SecretsGet(store, "AZURE_OPENAI_API_ENDPOINT"),
     API_KEY |-> SecretsGet(store, "AZURE_OPENAI_API_KEY")]

\* AzureOpenAIChat.__init__
ClientInit(store) ==
    LET endpoint == SecretsGet(store, "AZURE_OPENAI_API_ENDPOINT")
        key == SecretsGet(store, "AZURE_OPENAI_API_KEY")
    IN  [exc |-> IF key = "" THEN "ValueError" ELSE "",
         API_ENDPOINT |-> endpoint, API_KEY |-> key]

\* main(): except RuntimeError
MainCatches(exc) == exc = "RuntimeError"

\* the chunk put in front of the text
Accumulate_Prepend(text, chunk) ==
    IF chunk.t = "str" THEN [exc |-> "", text |-> chunk.s \o text]
    ELSE [exc |-> "TypeError", text |-> text]

\* main(): full_response += text_chunk
Accumulate(text, chunk) ==
    IF chunk.t = "str" THEN [exc |-> "", text |-> text \o chunk.s]
    ELSE [exc |-> "TypeError", text |-> text]

UserEntry(p) == [role |-> "user", content |-> p]
AssistantEntry(text) == [role |-> "assistant", content |-> text]

NoGen ==
    [state |-> "None", posts |-> 0, status |-> 0, body |-> <<>>, pos |-> 0,
     yielded |-> <<>>, failure |-> "", cause |-> ""]
NewGen == [NoGen EXCEPT !.state = "Idle"]

Bodies(n) == UNION {[1..k -> Lines] : k \in 0..n}

Init ==
    /\ secrets \in SecretStores
    /\ messages = <<>>
    /\ pc = "ready"
    /\ prompt = ""
    /\ full_response = ""
    /\ ui = [placeholder |-> NoPlaceholder, error |-> ""]
    /\ escaped = ""
    /\ gen = NoGen
    /\ turns = 0
    /\ served = 0
    /\ turnLog = <<>>

Logged(outcome, frags) ==
    Append(turnLog, [prompt |-> prompt, outcome |-> outcome, frags |-> frags])

Values(ys) == [i \in 1..Len(ys) |-> ys[i].v]

(***************************************************************************)
(* main(): the user submits a prompt.  The user entry is appended, the      *)
(* client is constructed (outside any try), the placeholder is created and  *)
(* generate_response_stream is called, which only creates the generator.    *)
(***************************************************************************)
Submit(p) ==
    /\ pc = "ready"
    /\ turns < MaxTurns
    /\ turns' = turns + 1
    /\ prompt' = p
    /\ messages' = Append(messages, UserEntry(p))
    /\ full_response' = ""
    /\ LET client == ClientInit(secrets) IN
       IF client.exc # ""
       THEN /\ pc' = "ready"
            /\ escaped' = client.exc
            /\ gen' = NoGen
            /\ ui' = [placeholder |-> NoPlaceholder, error |-> ""]
            /\ turnLog' = Append(turnLog, [prompt |-> p, outcome |-> "escaped",
                                             frags |-> <<>>])
       ELSE /\ pc' = "streaming"
            /\ escaped' = ""
            /\ gen' = NewGen
            /\ ui' = [placeholder |-> "", error |-> ""]
            /\ turnLog' = turnLog
    /\ UNCHANGED <<secrets, served>>

(***************************************************************************)
(* What main() does when the generator raises RuntimeError(message): the    *)
(* error is shown and the placeholder holds the apology.                    *)
(***************************************************************************)
GeneratorFails(g, exc) ==
    /\ gen' = [g EXCEPT !.state = "Failed", !.failure = WrapError(exc), !.cause = exc]
    /\ IF MainCatches("RuntimeError")
       THEN /\ ui' = [placeholder |-> Sorry,
                      error |-> "Error generating response: " \o WrapError(exc)]
            /\ escaped' = ""
            /\ turnLog' = Logged("failed", Values(g.yielded))
       ELSE /\ ui' = ui
            /\ escaped' = "RuntimeError"
            /\ turnLog' = Logged("escaped", Values(g.yielded))
    /\ pc' = "ready"
    /\ UNCHANGED <<secrets, messages, prompt, full_response, turns>>

(***************************************************************************)
(* What main() does when the generator returns: the placeholder shows the   *)
(* text without the cursor and the assistant entry is appended.             *)
(***************************************************************************)
GeneratorReturns(newpos) ==
    /\ gen' = [gen EXCEPT !.state = "Completed", !.pos = newpos]
    /\ ui' = [ui EXCEPT !.placeholder = full_response]
    /\ messages' = Append(messages, AssistantEntry(full_response))
    /\ turnLog' = Logged("completed", Values(gen.yielded))
    /\ pc' = "ready"
    /\ UNCHANGED <<secrets, prompt, full_response, escaped, turns>>

(***************************************************************************)
(* First next() of the generator: requests.post is called.                  *)
(***************************************************************************)
Post ==
    /\ pc = "streaming"
    /\ gen.state = "Idle"
    /\ gen' = [gen EXCEPT !.state = "RequestSent", !.posts = @ + 1]
    /\ UNCHANGED <<secrets, messages, pc, prompt, full_response, ui, escaped,
                   turns, served, turnLog>>

\* a failed post is tried once more
PostRaises_Retry ==
    /\ pc = "streaming"
    /\ gen.state = "RequestSent"
    /\ IF gen.posts < 2
       THEN /\ gen' = [gen EXCEPT !.state = "Idle"]
            /\ UNCHANGED <<secrets, messages, pc, prompt, full_response, ui,
                           escaped, turns, turnLog>>
       ELSE GeneratorFails(gen, "ConnectionError")
    /\ UNCHANGED served

\* requests.post raises: no URL to post to, or the connection fails
PostRaises ==
    /\ pc = "streaming"
    /\ gen.state = "RequestSent"
    /\ GeneratorFails(gen, IF ClientInit(secrets).API_ENDPOINT = ""
                           THEN "MissingSchema" ELSE "ConnectionError")
    /\ UNCHANGED served

\* a rejected status is answered with a second post
BadStatus_Retry(code) ==
    /\ pc = "streaming"
    /\ gen.state = "RequestSent"
    /\ ClientInit(secrets).API_ENDPOINT # ""
    /\ code >= 400
    /\ IF gen.posts < 2
       THEN /\ gen' = [gen EXCEPT !.posts = @ + 1]
            /\ UNCHANGED <<secrets, messages, pc, prompt, full_response, ui,
                           escaped, turns, turnLog>>
       ELSE GeneratorFails([gen EXCEPT !.status = code], "HTTPError")
    /\ UNCHANGED served

\* requests.post returns a response whose status raise_for_status rejects
BadStatus(code) ==
    /\ pc = "streaming"
    /\ gen.state = "RequestSent"
    /\ ClientInit(secrets).API_ENDPOINT # ""
    /\ code >= 400
    /\ GeneratorFails([gen EXCEPT !.status = code], "HTTPError")
    /\ UNCHANGED served

\* requests.post returns a response that raise_for_status accepts; the loop
\* over response.iter_lines() starts
OpenBody ==
    /\ pc = "streaming"
    /\ gen.state = "RequestSent"
    /\ ClientInit(secrets).API_ENDPOINT # ""
    /\ \E body \in Bodies(MaxLines - served) :
          /\ served' = served + Len(body)
          /\ gen' = [gen EXCEPT !.state = "Streaming", !.status = 200, !.body = body]
    /\ UNCHANGED <<secrets, messages, pc, prompt, full_response, ui, escaped,
                   turns, turnLog>>

(***************************************************************************)
(* The loop over response.iter_lines(): one line is read and handled.  A    *)
(* yielded value goes through the body of main()'s loop before the next     *)
(* line is read.                                                            *)
(***************************************************************************)
CanRead ==
    /\ pc = "streaming"
    /\ gen.state = "Streaming"
    /\ gen.pos < Len(gen.body)

NextLine == gen.body[gen.pos + 1]

\* the terminal marker: break, and the generator returns
ReadDone ==
    /\ CanRead
    /\ DecodeLine(NextLine).act = "break"
    /\ GeneratorReturns(gen.pos + 1)
    /\ UNCHANGED served

\* a line that yields nothing: continue
ReadSkip ==
    /\ CanRead
    /\ DecodeLine(NextLine).act = "skip"
    /\ gen' = [gen EXCEPT !.pos = @ + 1]
    /\ UNCHANGED <<secrets, messages, pc, prompt, full_response, ui, escaped,
                   turns, served, turnLog>>

\* yield delta['content'], and main() appends it to full_response
ReadYield ==
    /\ CanRead
    /\ DecodeLine(NextLine).act = "yield"
    /\ LET chunk == DecodeLine(NextLine).v
           sum == Accumulate(full_response, chunk)
           ys == Append(gen.yielded, [line |-> gen.pos + 1, v |-> chunk])
       IN  /\ gen' = [gen EXCEPT !.pos = @ + 1, !.yielded = ys]
           /\ IF sum.exc = ""
              THEN /\ full_response' = sum.text
                   /\ ui' = [ui EXCEPT !.placeholder = sum.text \o Cursor]
                   /\ UNCHANGED <<pc, escaped, turnLog>>
              ELSE \* the exception leaves the loop; the generator is abandoned
                   /\ full_response' = full_response
                   /\ pc' = "ready"
                   /\ IF MainCatches(sum.exc)
                      THEN /\ ui' = [placeholder |-> Sorry,
                                     error |-> "Error generating response: " \o sum.exc]
                           /\ escaped' = ""
                           /\ turnLog' = Logged("failed", Values(ys))
                      ELSE /\ ui' = ui
                           /\ escaped' = sum.exc
                           /\ turnLog' = Logged("escaped", Values(ys))
    /\ UNCHANGED <<secrets, messages, prompt, turns, served>>

\* an exception the inner except does not catch
ReadRaise ==
    /\ CanRead
    /\ DecodeLine(NextLine).act = "raise"
    /\ GeneratorFails([gen EXCEPT !.pos = @ + 1], DecodeLine(NextLine).exc)
    /\ UNCHANGED served

\* iter_lines() is exhausted: the body ended without a marker
EndOfBody ==
    /\ pc = "streaming"
    /\ gen.state = "Streaming"
    /\ gen.pos = Len(gen.body)
    /\ GeneratorReturns(gen.pos)
    /\ UNCHANGED served

\* iter_lines() raises: the connection drops before the next line arrives
TransportFail ==
    /\ pc = "streaming"
    /\ gen.state = "Streaming"
    /\ GeneratorFails(gen, "ChunkedEncodingError")
    /\ UNCHANGED served

StatusCodes == {401, 500}

Next ==
    \/ \E p \in Prompts : Submit(p)
    \/ Post
    \/ PostRaises
    \/ \E code \in StatusCodes : BadStatus(code)
    \/ OpenBody
    \/ ReadDone
    \/ ReadSkip
    \/ ReadYield
    \/ ReadRaise
    \/ EndOfBody
    \/ TransportFail

Spec == Init /\ [][Next]_vars

(***************************************************************************)
(* Terms of the properties, stated on the lines of a body.                  *)
(***************************************************************************)
\* the line is 'data: [DONE]' once surrounding whitespace is trimmed
TerminalMarker(line) == line.prefix /\ line.form = "done"

\* the line begins with 'data: ' and is no terminal marker
IsDataLine(line) == line.prefix /\ ~line.lead /\ ~TerminalMarker(line)

\* the payload is a JSON object that has choices[0].delta.content
HasContentPath(line) ==
    /\ IsDataLine(line)
    /\ line.form = "json"
    /\ line.json.t = "obj"
    /\ HasKey(line.json, "choices")
    /\ LET choices == ValueOf(line.json, "choices") IN
       /\ choices.t = "arr"
       /\ Len(choices.kids) > 0
       /\ choices.kids[1].t = "obj"
       /\ HasKey(choices.kids[1], "delta")
       /\ LET delta == ValueOf(choices.kids[1], "delta") IN
          /\ delta.t = "obj"
          /\ HasKey(delta, "content")

ContentOf(line) ==
    ValueOf(ValueOf(ValueOf(line.json, "choices").kids[1], "delta"), "content")

\* the lines before the first terminal marker: their number
BeforeMarker(body) ==
    IF \E i \in 1..Len(body) : TerminalMarker(body[i])
    THEN (CHOOSE i \in 1..Len(body) :
            /\ TerminalMarker(body[i])
            /\ \A j \in 1..(i - 1) : ~TerminalMarker(body[j])) - 1
    ELSE Len(body)

\* choices[0].delta.content of the first n lines, in line order
RECURSIVE ContentsUpTo(_, _)
ContentsUpTo(body, n) ==
    IF n = 0 THEN <<>>
    ELSE IF HasContentPath(body[n])
         THEN Append(ContentsUpTo(body, n - 1), [line |-> n, v |-> ContentOf(body[n])])
         ELSE ContentsUpTo(body, n - 1)

RECURSIVE ConcatText(_)
ConcatText(frags) ==
    IF frags = <<>> THEN "" ELSE frags[1].s \o ConcatText(Tail(frags))

IsPrefix(a, b) == Len(a) <= Len(b) /\ SubSeq(b, 1, Len(a)) = a

\* the generator ran to its end on the whole body: it returned, or an
\* exception other than a transport failure left it
EndedOnBody ==
    \/ gen.state = "Completed"
    \/ gen.state = "Failed" /\ gen.cause \notin RequestExceptions

TransportFailed == gen.state = "Failed" /\ gen.cause \in RequestExceptions

KeyMissing == secrets["AZURE_OPENAI_API_KEY"] \in {<<>>, <<"">>}

(***************************************************************************)
(* C1: when a call has run to its end on a body, the values it yielded, in  *)
(* yield order, are exactly choices[0].delta.content of the 'data: ' lines  *)
(* before the first terminal marker, in line order, each once.              *)
(***************************************************************************)
C1_YieldsEveryContent ==
    EndedOnBody => gen.yielded = ContentsUpTo(gen.body, BeforeMarker(gen.body))

(***************************************************************************)
(* C2: no line after a terminal marker is read, and no value is yielded     *)
(* from such a line: a marker among the lines read is the last line read    *)
(* and the call completed on it.                                            *)
(***************************************************************************)
C2_MarkerEndsSequence ==
    /\ \A i \in 1..gen.pos :
          TerminalMarker(gen.body[i]) => i = gen.pos /\ gen.state = "Completed"
    /\ \A k \in 1..Len(gen.yielded) : gen.yielded[k].line <= BeforeMarker(gen.body)

C2_Witness ==
    /\ gen.state = "Completed"
    /\ gen.pos = 2
    /\ Len(gen.body) = 3
    /\ gen.body[2] = DoneLineCR
    /\ HasContentPath(gen.body[1])
    /\ HasContentPath(gen.body[3])
    /\ Len(gen.yielded) = 1

(***************************************************************************)
(* C3: a 'data: ' line without choices[0].delta.content (no JSON, no        *)
(* object, no or empty choices, no object delta, no content) raises no      *)
(* error and yields nothing, and the lines after it are processed.          *)
(***************************************************************************)
Malformed(line) == IsDataLine(line) /\ ~HasContentPath(line)

C3_MalformedLinesSkipped ==
    \A i \in 1..gen.pos :
        Malformed(gen.body[i]) =>
            /\ ~(gen.state = "Failed" /\ gen.cause \notin RequestExceptions /\ gen.pos = i)
            /\ \A k \in 1..Len(gen.yielded) : gen.yielded[k].line # i

(***************************************************************************)
(* C4: with the API key absent or empty, whatever the endpoint, a turn      *)
(* ends in the constructor's exception and no request is posted in it.      *)
(***************************************************************************)
C4_MissingKeyRaises ==
    (KeyMissing /\ turns > 0) =>
        /\ pc = "ready"
        /\ escaped = "ValueError"
        /\ gen.state = "None"
        /\ gen.posts = 0

C4_Witness ==
    /\ turns > 0
    /\ secrets["AZURE_OPENAI_API_KEY"] = <<"">>
    /\ secrets["AZURE_OPENAI_API_ENDPOINT"] = <<"set">>
    /\ escaped = "ValueError"

C6_NoFailureEscapes ==
    /\ escaped = ""
    /\ (pc = "ready" /\ turns > 0 /\ turnLog[Len(turnLog)].outcome # "completed")
          => ui.error # ""

(***************************************************************************)
(* C7: the transcript holds, turn by turn, the user entry of the prompt     *)
(* and, right after it, for a completed turn only, the assistant entry      *)
(* with the concatenation of the turn's fragments; entries are only ever    *)
(* appended.                                                                *)
(***************************************************************************)
RECURSIVE TurnEntries(_)
TurnEntries(log) ==
    IF log = <<>> THEN <<>>
    ELSE <<UserEntry(log[1].prompt)>>
         \o (IF log[1].outcome = "completed"
             THEN <<AssistantEntry(ConcatText(log[1].frags))>> ELSE <<>>)
         \o TurnEntries(Tail(log))

ExpectedTranscript ==
    TurnEntries(turnLog) \o (IF pc = "streaming" THEN <<UserEntry(prompt)>> ELSE <<>>)

C7_Transcript ==
    /\ [](messages = ExpectedTranscript)
    /\ [][IsPrefix(messages, messages')]_vars

C7_Witness ==
    /\ pc = "ready"
    /\ Len(turnLog) = 2
    /\ turnLog[1].outcome = "completed"
    /\ Len(turnLog[1].frags) = 2
    /\ turnLog[2].outcome = "failed"
    /\ Len(turnLog[2].frags) = 1
    /\ messages = <<UserEntry("Hello"), AssistantEntry("Hi there"), UserEntry("Hello")>>

(***************************************************************************)
(* C8: the states of one call.  As claimed: Idle -> RequestSent ->          *)
(* Streaming -> Completed or Failed, the last two absorbing, Completed on   *)
(* the marker or the end of the body.                                       *)
(***************************************************************************)
ClaimedEdges ==
    { <<"Idle", "RequestSent">>, <<"RequestSent", "Streaming">>,
      <<"Streaming", "Completed">>, <<"Streaming", "Failed">> }

CallStep(edges) ==
    turns' = turns =>
        /\ gen'.state # gen.state => <<gen.state, gen'.state>> \in edges
        /\ gen.state \in {"Completed", "Failed"} => gen' = gen
        /\ (gen.state = "Streaming" /\ gen'.state = "Completed") =>
              \/ gen'.pos = gen.pos + 1 /\ TerminalMarker(gen.body[gen'.pos])
              \/ gen'.pos = gen.pos /\ gen.pos = Len(gen.body)
        /\ gen'.state = "Failed" => gen'.failure \in {"Request error", "Unexpected error"}

C8_StateMachineAsClaimed == [][CallStep(ClaimedEdges)]_vars

(***************************************************************************)
(* C8, amended: Failed is also reached from RequestSent, when the post      *)
(* raises or the status is rejected.                                        *)
(***************************************************************************)
C8_StateMachine ==
    [][CallStep(ClaimedEdges \cup {<<"RequestSent", "Failed">>})]_vars

C8_Witness ==
    /\ gen.state = "Failed"
    /\ gen.status = 401
    /\ gen.pos = 0
    /\ gen.posts = 1

(***************************************************************************)
(* C9: a call posts once: no post before the generator runs, one from then  *)
(* on, whether the call completes or fails.                                 *)
(***************************************************************************)
C9_OnePost ==
    /\ gen.state \in {"None", "Idle"} => gen.posts = 0
    /\ gen.state \in {"RequestSent", "Streaming", "Completed", "Failed"} => gen.posts = 1

C9_Witness ==
    /\ gen.state = "Failed"
    /\ gen.status = 500
    /\ gen.posts = 1
    /\ Len(turnLog) = 2

(***************************************************************************)
(* C10: every value yielded is a string, so that appending it to            *)
(* full_response never fails.                                               *)
(***************************************************************************)
C10_OnlyStringsYielded ==
    /\ \A k \in 1..Len(gen.yielded) : gen.yielded[k].v.t = "str"
    /\ escaped # "TypeError"

====
